---- MODULE Spec2Model ----
(***************************************************************************)
(* Model of the LSM6DSV16X sensor-fusion driver                            *)
(* (src/adafruit_lsm6ds/lsm6dsv16x.py): the constructor, the SFLP          *)
(* configurator _enable_sflp, the FIFO status decoder _read_status and the *)
(* quaternion property, running against a device whose register space is   *)
(* banked and whose FIFO output window pops a frame when its payload is    *)
(* read.  One step of a caller is one register descriptor access, i.e. one *)
(* bus transaction pair (read-modify-write) or one bus read.               *)
(***************************************************************************)
EXTENDS Integers, Sequences, FiniteSets, TLC

\* ------------------------------------------------------------------ bounds
MaxCalls == 3
MaxFrames == 3

\* --------------------------------------------------------------- constants
LSM6DSV16X_SFLP_ODR == 94
LSM6DSV16X_EMB_FUNC_FIFO_EN_A == 68
LSM6DSV16X_FIFO_CTRL4 == 10
LSM6DSV16X_FIFO_STATUS1 == 27
LSM6DSV16X_FIFO_DATA_OUT_X_L == 121
LSM6DSV16X_FIFO_DATA_OUT_TAG == 120

\* Declared in the package's __init__.py, which this module imports.
LSM6DS_FUNC_CFG_ACCESS == 1
LSM6DS_EMB_FUNC_EN_A == 4
LSM6DS_CTRL9_XL == 24

RATE_120_HZ == 3
LSM6DSV16X_CONTINUOUS_MODE == 5

SAMPLES_BITMASK == 511
WTM_BITMASK == 32768
OVR_BITMASK == 16384
FULL_BITMASK == 8192
BDR_BITMASK == 4096
OVR_LATCHED_BITMASK == 2048

\* Tags of FIFO frames: the fusion output (game rotation vector) and one
\* other producer sharing the FIFO (accelerometer batch data).
TAG_SFLP_GAME_ROTATION == 19
TAG_XL_NC == 2

None == "None"
OSError == "OSError"

Callers == {1, 2}
Tags == {TAG_SFLP_GAME_ROTATION, TAG_XL_NC}
Payloads == { <<1, 0, 2, 0, 255, 255>>, <<0, 128, 255, 127, 52, 18>> }
FillBytes == {0, 255}
StatusHighBytes == {0, 128, 6}
Banks == {0, 1}
Addrs == {LSM6DS_FUNC_CFG_ACCESS, LSM6DS_EMB_FUNC_EN_A, LSM6DSV16X_FIFO_CTRL4,
          LSM6DS_CTRL9_XL, LSM6DSV16X_EMB_FUNC_FIFO_EN_A, LSM6DSV16X_SFLP_ODR}

\* ------------------------------------------------------------ bit helpers
RECURSIVE Pow2(_)
Pow2(n) == IF n = 0 THEN 1 ELSE 2 * Pow2(n - 1)

RECURSIVE BitAnd(_, _)
BitAnd(a, b) ==
    IF a = 0 \/ b = 0 THEN 0
    ELSE (a % 2) * (b % 2) + 2 * BitAnd(a \div 2, b \div 2)

\* a & ~m within one byte
BitClear(a, m) == a - BitAnd(a, m)

\* a | b
BitOr(a, b) == a + b - BitAnd(a, b)

\* The register value the descriptors build from the bytes read, LSB first.
RECURSIVE RegValue(_)
RegValue(bytes) ==
    IF bytes = <<>> THEN 0 ELSE Head(bytes) + 256 * RegValue(Tail(bytes))

\* ------------------------------------------------- register descriptors
\* ROBits/RWBits.__get__: reg = (reg & bit_mask) >> lowest_bit
Bits_get(num_bits, lowest_bit, bytes) ==
    BitAnd(RegValue(bytes), (Pow2(num_bits) - 1) * Pow2(lowest_bit))
        \div Pow2(lowest_bit)

\* RWBits.__set__ on a one-byte register: reg &= ~bit_mask; reg |= value << lowest_bit
Bits_set(num_bits, lowest_bit, byte, value) ==
    BitOr(BitClear(byte, (Pow2(num_bits) - 1) * Pow2(lowest_bit)),
          (value * Pow2(lowest_bit)) % 256)

\* The descriptors the base class declares: the bank-select bit and the I3C
\* disable bit.
BaseDescriptor(attr) ==
    CASE attr = "_mem_bank"    -> [addr |-> LSM6DS_FUNC_CFG_ACCESS, num_bits |-> 1, lowest_bit |-> 7]
      [] attr = "_i3c_disable" -> [addr |-> LSM6DS_CTRL9_XL, num_bits |-> 1, lowest_bit |-> 1]

\* The read/write descriptors this class declares.
Descriptor(attr) ==
    CASE attr = "_sflp_data_rate" -> [addr |-> LSM6DSV16X_SFLP_ODR, num_bits |-> 3, lowest_bit |-> 3]
      [] attr = "_sflp_batch"     -> [addr |-> LSM6DSV16X_EMB_FUNC_FIFO_EN_A, num_bits |-> 1, lowest_bit |-> 1]
      [] attr = "_fifo_mode"      -> [addr |-> LSM6DSV16X_FIFO_CTRL4, num_bits |-> 3, lowest_bit |-> 0]
      [] attr = "_sflp_en"        -> [addr |-> LSM6DS_EMB_FUNC_EN_A, num_bits |-> 1, lowest_bit |-> 1]
      [] OTHER                    -> BaseDescriptor(attr)

\* _fifo_status1 = ROBits(8, FIFO_STATUS1, 0, 2): `bytes` are the two bytes
\* read at 0x1B.
fifo_status1_shifted(bytes) == Bits_get(8, 3, bytes)
fifo_status1(bytes) == Bits_get(8, 0, bytes)

\* _fifo_data_out_tag = ROBits(5, FIFO_DATA_OUT_TAG, 3)
fifo_data_out_tag(bytes) == Bits_get(5, 3, bytes)

\* Struct(FIFO_DATA_OUT_X_L, "<hhh"): three signed little-endian 16-bit fields
Int16(lo, hi) ==
    LET u == lo + 256 * hi IN IF u >= 32768 THEN u - 65536 ELSE u
raw_sensor_fusion_data(bytes) ==
    << Int16(bytes[1], bytes[2]), Int16(bytes[3], bytes[4]), Int16(bytes[5], bytes[6]) >>

\* ---------------------------------------------------------- _read_status
read_status(bytes) ==
    LET raw_status == fifo_status1(bytes) IN
    [ samples   |-> BitAnd(raw_status, SAMPLES_BITMASK),
      wtm       |-> BitAnd(raw_status, WTM_BITMASK) # 0,
      ovr       |-> BitAnd(raw_status, OVR_BITMASK) # 0,
      full      |-> BitAnd(raw_status, FULL_BITMASK) # 0,
      bdr       |-> BitAnd(raw_status, BDR_BITMASK) # 0,
      ovr_latch |-> BitAnd(raw_status, OVR_LATCHED_BITMASK) # 0 ]

\* ------------------------------------------------- the operations' bodies
\* _enable_sflp: the descriptor assignments in program order.
enable_sflp_engine_first ==
    << [attr |-> "_mem_bank", val |-> 1],
       [attr |-> "_sflp_data_rate", val |-> RATE_120_HZ],
       [attr |-> "_sflp_batch", val |-> 1],
       [attr |-> "_sflp_en", val |-> 1],
       [attr |-> "_fifo_mode", val |-> LSM6DSV16X_CONTINUOUS_MODE],
       [attr |-> "_mem_bank", val |-> 0] >>
enable_sflp_body ==
    << [attr |-> "_mem_bank", val |-> 1],
       [attr |-> "_sflp_data_rate", val |-> RATE_120_HZ],
       [attr |-> "_sflp_batch", val |-> 1],
       [attr |-> "_fifo_mode", val |-> LSM6DSV16X_CONTINUOUS_MODE],
       [attr |-> "_sflp_en", val |-> 1],
       [attr |-> "_mem_bank", val |-> 0] >>

\* quaternion: the registers read, in program order.
quaternion_reads_twice ==
    << LSM6DSV16X_FIFO_STATUS1, LSM6DSV16X_FIFO_DATA_OUT_X_L,
       LSM6DSV16X_FIFO_DATA_OUT_X_L, LSM6DSV16X_FIFO_DATA_OUT_TAG >>
quaternion_body ==
    << LSM6DSV16X_FIFO_STATUS1, LSM6DSV16X_FIFO_DATA_OUT_X_L,
       LSM6DSV16X_FIFO_DATA_OUT_TAG >>

\* ------------------------------------------------------------------ state
VARIABLES
    mem,            \* device registers, by <<bank, address>>
    fifo,           \* device FIFO: frames [id, tag, payload], oldest first
    nProduced,      \* frames the device has queued so far
    pc,             \* per caller: "new", "sflp", "ready", "quat", "init_raised", "sflp_raised"
    idx,            \* per caller: next statement of the running body
    sensor_fusion,  \* per caller: the constructor's argument
    trace,          \* per caller: bus writes issued by its _enable_sflp
    sflpRuns,       \* per caller: completed runs of _enable_sflp
    status,         \* per caller: quaternion's local `status`
    raw_quat_data,  \* per caller: quaternion's local `raw_quat_data`
    tag,            \* per caller: value read from _fifo_data_out_tag
    ret,            \* per caller: outcome of the last operation
    reads,          \* per caller: addresses read by the last quaternion
    rawSrc,         \* per caller: id of the frame the payload came from
    tagSrc,         \* per caller: id of the frame the tag came from
    calls,          \* per caller: quaternion calls started
    consumed,       \* payload frame ids of the completed quaternion calls
    word            \* the status register value fed to _read_status alone

vars == << mem, fifo, nProduced, pc, idx, sensor_fusion, trace, sflpRuns,
           status, raw_quat_data, tag, ret, reads, rawSrc, tagSrc, calls,
           consumed, word >>

quatVars == << status, raw_quat_data, tag, reads, rawSrc, tagSrc, calls, consumed >>

\* ----------------------------------------------------------------- device
\* The bank-select bit (bit 7 of FUNC_CFG_ACCESS) is reachable from both banks;
\* every other address selects the register of the bank currently selected.
Phys(bank, addr) ==
    IF addr = LSM6DS_FUNC_CFG_ACCESS THEN <<0, addr>> ELSE <<bank, addr>>

BankSel(m) == Bits_get(1, 7, << m[<<0, LSM6DS_FUNC_CFG_ACCESS>>] >>)

\* A register write through descriptor d: read-modify-write of the byte the
\* current bank exposes at d.addr.
RegWrite(m, d, value) ==
    LET p == Phys(BankSel(m), d.addr) IN
    [m EXCEPT ![p] = Bits_set(d.num_bits, d.lowest_bit, m[p], value)]

Field(m, bank, attr) ==
    LET d == Descriptor(attr) IN
    Bits_get(d.num_bits, d.lowest_bit, << m[Phys(bank, d.addr)] >>)

TagByte(f) == f.tag * 8 + 2 * (f.id % 4)

\* What an address outside the modelled embedded registers reads as while
\* the embedded bank is selected.
Fill == mem[<<1, LSM6DS_CTRL9_XL>>]

\* ------------------------------------------------------------------- Init
InitMem(fill) ==
    [p \in Banks \X Addrs |->
        IF p[2] = LSM6DS_FUNC_CFG_ACCESS THEN 0 ELSE fill]

Init ==
    /\ \E fill \in FillBytes : mem = InitMem(fill)
    /\ fifo = <<>>
    /\ nProduced = 0
    /\ pc = [c \in Callers |-> "new"]
    /\ idx = [c \in Callers |-> 1]
    /\ sensor_fusion = [c \in Callers |-> FALSE]
    /\ trace = [c \in Callers |-> <<>>]
    /\ sflpRuns = [c \in Callers |-> 0]
    /\ status = [c \in Callers |-> None]
    /\ raw_quat_data = [c \in Callers |-> None]
    /\ tag = [c \in Callers |-> None]
    /\ ret = [c \in Callers |-> None]
    /\ reads = [c \in Callers |-> <<>>]
    /\ rawSrc = [c \in Callers |-> 0]
    /\ tagSrc = [c \in Callers |-> 0]
    /\ calls = [c \in Callers |-> 0]
    /\ consumed = <<>>
    /\ word = 0

\* ---------------------------------------------------------------- actions
\* The device queues one more frame.
produce ==
    /\ nProduced < MaxFrames
    /\ \E t \in Tags, p \in Payloads :
         fifo' = Append(fifo, [id |-> nProduced + 1, tag |-> t, payload |-> p])
    /\ nProduced' = nProduced + 1
    /\ UNCHANGED << mem, pc, idx, sensor_fusion, trace, sflpRuns, ret, word >>
    /\ UNCHANGED quatVars

\* __init__: the base constructor, then self._i3c_disable = True, then the
\* configurator when sensor_fusion is set.
init(c) ==
    /\ pc[c] = "new"
    /\ \E sf \in BOOLEAN, o \in {"ok", "read_fail", "write_fail"} :
         /\ sensor_fusion' = [sensor_fusion EXCEPT ![c] = sf]
         /\ mem' = IF o = "ok" THEN RegWrite(mem, Descriptor("_i3c_disable"), 1) ELSE mem
         /\ pc' = [pc EXCEPT ![c] = IF o # "ok" THEN "init_raised"
                                    ELSE IF sf THEN "sflp" ELSE "ready"]
         /\ ret' = [ret EXCEPT ![c] = IF o # "ok" THEN OSError ELSE None]
    /\ UNCHANGED << fifo, nProduced, idx, trace, sflpRuns, word >>
    /\ UNCHANGED quatVars

\* _enable_sflp: one descriptor assignment.  A bus failure raises out of the
\* method (and out of the constructor); nothing after it runs.
enable_sflp(c) ==
    /\ pc[c] = "sflp"
    /\ LET s == enable_sflp_body[idx[c]]
           last == idx[c] = Len(enable_sflp_body)
       IN \E o \in {"ok", "read_fail", "write_fail"} :
            /\ trace' = [trace EXCEPT ![c] = IF o = "read_fail" THEN @ ELSE Append(@, s)]
            /\ mem' = IF o = "ok" THEN RegWrite(mem, Descriptor(s.attr), s.val) ELSE mem
            /\ pc' = [pc EXCEPT ![c] = IF o # "ok" THEN "sflp_raised"
                                       ELSE IF last THEN "ready" ELSE "sflp"]
            /\ idx' = [idx EXCEPT ![c] = IF o = "ok" /\ ~last THEN @ + 1 ELSE @]
            /\ ret' = [ret EXCEPT ![c] = IF o # "ok" THEN OSError ELSE None]
            /\ sflpRuns' = [sflpRuns EXCEPT ![c] = IF o = "ok" /\ last THEN @ + 1 ELSE @]
    /\ UNCHANGED << fifo, nProduced, sensor_fusion, word >>
    /\ UNCHANGED quatVars

\* What one bus read of quaternion obtains and does to the device.  With the
\* embedded bank selected the FIFO registers are not the ones addressed.
\* Reading the payload window pops the oldest frame; the tag register shows
\* the tag of the oldest frame still queued.
QuatRead(c, a, first) ==
    LET st0  == IF first THEN None ELSE status[c]
        raw0 == IF first THEN None ELSE raw_quat_data[c]
        tag0 == IF first THEN None ELSE tag[c]
        rs0  == IF first THEN 0 ELSE rawSrc[c]
        ts0  == IF first THEN 0 ELSE tagSrc[c]
        banked == BankSel(mem) = 1
    IN
    CASE a = LSM6DSV16X_FIFO_STATUS1 ->
           /\ \E hi \in StatusHighBytes :
                status' = [status EXCEPT ![c] =
                    read_status(IF banked THEN <<Fill, Fill>> ELSE <<Len(fifo) % 256, hi>>)]
           /\ raw_quat_data' = [raw_quat_data EXCEPT ![c] = raw0]
           /\ tag' = [tag EXCEPT ![c] = tag0]
           /\ rawSrc' = [rawSrc EXCEPT ![c] = rs0]
           /\ tagSrc' = [tagSrc EXCEPT ![c] = ts0]
           /\ fifo' = fifo
      [] a = LSM6DSV16X_FIFO_DATA_OUT_X_L ->
           /\ status' = [status EXCEPT ![c] = st0]
           /\ tag' = [tag EXCEPT ![c] = tag0]
           /\ tagSrc' = [tagSrc EXCEPT ![c] = ts0]
           /\ IF banked
              THEN /\ raw_quat_data' = [raw_quat_data EXCEPT ![c] =
                          raw_sensor_fusion_data(<<Fill, Fill, Fill, Fill, Fill, Fill>>)]
                   /\ rawSrc' = [rawSrc EXCEPT ![c] = 0]
                   /\ fifo' = fifo
              ELSE IF fifo = <<>>
              THEN /\ \E p \in Payloads :
                        raw_quat_data' = [raw_quat_data EXCEPT ![c] = raw_sensor_fusion_data(p)]
                   /\ rawSrc' = [rawSrc EXCEPT ![c] = 0]
                   /\ fifo' = fifo
              ELSE /\ raw_quat_data' = [raw_quat_data EXCEPT ![c] =
                          raw_sensor_fusion_data(Head(fifo).payload)]
                   /\ rawSrc' = [rawSrc EXCEPT ![c] = Head(fifo).id]
                   /\ fifo' = Tail(fifo)
      [] a = LSM6DSV16X_FIFO_DATA_OUT_TAG ->
           /\ status' = [status EXCEPT ![c] = st0]
           /\ raw_quat_data' = [raw_quat_data EXCEPT ![c] = raw0]
           /\ rawSrc' = [rawSrc EXCEPT ![c] = rs0]
           /\ fifo' = fifo
           /\ IF banked
              THEN /\ tag' = [tag EXCEPT ![c] = fifo_data_out_tag(<<Fill>>)]
                   /\ tagSrc' = [tagSrc EXCEPT ![c] = 0]
              ELSE IF fifo = <<>>
              THEN /\ \E t \in Tags \cup {0} :
                        tag' = [tag EXCEPT ![c] = fifo_data_out_tag(<<t * 8>>)]
                   /\ tagSrc' = [tagSrc EXCEPT ![c] = 0]
              ELSE /\ tag' = [tag EXCEPT ![c] = fifo_data_out_tag(<<TagByte(Head(fifo))>>)]
                   /\ tagSrc' = [tagSrc EXCEPT ![c] = Head(fifo).id]

\* quaternion: one register read of the property.  It reads the status, the
\* payload and the tag whatever the status says, prints them and returns None.
quaternion(c) ==
    /\ pc[c] \in {"ready", "quat"}
    /\ pc[c] = "ready" => calls[c] < MaxCalls
    /\ LET first == pc[c] = "ready"
           i == IF first THEN 1 ELSE idx[c]
           a == quaternion_body[i]
           last == i = Len(quaternion_body)
           rd0 == IF first THEN <<>> ELSE reads[c]
       IN /\ calls' = [calls EXCEPT ![c] = IF first THEN @ + 1 ELSE @]
          /\ \/ /\ QuatRead(c, a, first)
                /\ reads' = [reads EXCEPT ![c] = Append(rd0, a)]
                /\ pc' = [pc EXCEPT ![c] = IF last THEN "ready" ELSE "quat"]
                /\ idx' = [idx EXCEPT ![c] = i + 1]
                /\ ret' = [ret EXCEPT ![c] = None]
                /\ consumed' = IF last THEN Append(consumed, rawSrc'[c]) ELSE consumed
             \/ /\ reads' = [reads EXCEPT ![c] = rd0]
                /\ status' = [status EXCEPT ![c] = IF first THEN None ELSE @]
                /\ raw_quat_data' = [raw_quat_data EXCEPT ![c] = IF first THEN None ELSE @]
                /\ tag' = [tag EXCEPT ![c] = IF first THEN None ELSE @]
                /\ rawSrc' = [rawSrc EXCEPT ![c] = IF first THEN 0 ELSE @]
                /\ tagSrc' = [tagSrc EXCEPT ![c] = IF first THEN 0 ELSE @]
                /\ pc' = [pc EXCEPT ![c] = "ready"]
                /\ idx' = [idx EXCEPT ![c] = i]
                /\ ret' = [ret EXCEPT ![c] = OSError]
                /\ UNCHANGED << fifo, consumed >>
    /\ UNCHANGED << mem, nProduced, sensor_fusion, trace, sflpRuns, word >>

\* _read_status applied to the status register value `word`.
read_status_word ==
    /\ calls[1] = 0
    /\ calls' = [calls EXCEPT ![1] = 1]
    /\ status' = [status EXCEPT ![1] = read_status(<<word % 256, word \div 256>>)]
    /\ UNCHANGED << mem, fifo, nProduced, pc, idx, sensor_fusion, trace, sflpRuns,
                    raw_quat_data, tag, ret, reads, rawSrc, tagSrc, consumed, word >>

\* --------------------------------------------------------- specifications
\* One caller constructs the driver and polls it.
Next == produce \/ init(1) \/ enable_sflp(1) \/ quaternion(1)
Spec == Init /\ [][Next]_vars

\* A second caller constructs a driver on the same device at the same time.
ConcNext ==
    \/ \E c \in Callers : init(c)
    \/ \E c \in Callers : enable_sflp(c)
    \/ quaternion(1)
ConcSpec == Init /\ [][ConcNext]_vars

\* _read_status on every 16-bit value of the status register.
StatusInit ==
    /\ word \in 0..65535
    /\ mem = InitMem(0)
    /\ fifo = <<>>
    /\ nProduced = 0
    /\ pc = [c \in Callers |-> "ready"]
    /\ idx = [c \in Callers |-> 1]
    /\ sensor_fusion = [c \in Callers |-> FALSE]
    /\ trace = [c \in Callers |-> <<>>]
    /\ sflpRuns = [c \in Callers |-> 0]
    /\ status = [c \in Callers |-> None]
    /\ raw_quat_data = [c \in Callers |-> None]
    /\ tag = [c \in Callers |-> None]
    /\ ret = [c \in Callers |-> None]
    /\ reads = [c \in Callers |-> <<>>]
    /\ rawSrc = [c \in Callers |-> 0]
    /\ tagSrc = [c \in Callers |-> 0]
    /\ calls = [c \in Callers |-> 0]
    /\ consumed = <<>>
StatusNext == read_status_word
StatusSpec == StatusInit /\ [][StatusNext]_vars

\* ------------------------------------------------------------- properties
Range(s) == { s[i] : i \in 1..Len(s) }
Count(s, x) == Cardinality({ i \in 1..Len(s) : s[i] = x })
IsPrefix(s, t) == Len(s) <= Len(t) /\ \A i \in 1..Len(s) : s[i] = t[i]
Attrs(t) == [i \in 1..Len(t) |-> t[i].attr]

\* The configurator was entered and has ended, by returning or by raising.
SflpEnded(c) == sensor_fusion[c] /\ pc[c] \in {"ready", "quat", "sflp_raised"}
\* The configurator returned.
SflpReturned(c) == sensor_fusion[c] /\ pc[c] \in {"ready", "quat"}
\* The caller has entered the embedded bank and not yet issued the bank exit.
InScope(c) == pc[c] = "sflp" /\ idx[c] >= 2

ExpectedOrder ==
    << "_mem_bank", "_sflp_data_rate", "_sflp_batch", "_fifo_mode", "_sflp_en", "_mem_bank" >>
BracketedWrites(t) ==
    /\ Attrs(t) = ExpectedOrder
    /\ t[1].val = 1
    /\ t[Len(t)].val = 0

C2_BankExitOnFailure ==
    (pc[1] = "sflp_raised" /\ idx[1] \in 2..5) =>
        /\ trace[1] # <<>>
        /\ trace[1][Len(trace[1])] = [attr |-> "_mem_bank", val |-> 0]
        /\ BankSel(mem) = 0

\* C3: after construction with sensor fusion enabled the device holds: bank
\* select = default, fusion rate = 120 Hz code, fusion batching enabled, FIFO
\* mode = continuous, fusion engine enabled; the configurator ran once.
C3_ConfiguredAfterConstruction ==
    SflpReturned(1) =>
        /\ BankSel(mem) = 0
        /\ Field(mem, 1, "_sflp_data_rate") = RATE_120_HZ
        /\ Field(mem, 1, "_sflp_batch") = 1
        /\ Field(mem, 0, "_fifo_mode") = LSM6DSV16X_CONTINUOUS_MODE
        /\ Field(mem, 1, "_sflp_en") = 1
        /\ sflpRuns[1] = 1

\* C4: the status read returns watermark = bit 15, overrun = bit 14, full =
\* bit 13, rate change = bit 12, overrun latched = bit 11 and samples = bits
\* 8..0 of the 16-bit status word.
C4_StatusDecodesWord ==
    calls[1] = 1 =>
        status[1] = [ samples   |-> word % 512,
                      wtm       |-> (word \div 32768) % 2 = 1,
                      ovr       |-> (word \div 16384) % 2 = 1,
                      full      |-> (word \div 8192) % 2 = 1,
                      bdr       |-> (word \div 4096) % 2 = 1,
                      ovr_latch |-> (word \div 2048) % 2 = 1 ]

\* C5: a frame read whose status shows samples = 0 ends in the precondition
\* fault and reads neither the tag register 0x78 nor the payload at 0x79.
C5_NoFrameReadWhenEmpty ==
    (Len(reads[1]) >= 1 /\ status[1].samples = 0) =>
        /\ LSM6DSV16X_FIFO_DATA_OUT_TAG \notin Range(reads[1])
        /\ LSM6DSV16X_FIFO_DATA_OUT_X_L \notin Range(reads[1])
        /\ pc[1] = "ready" => ret[1] = "PreconditionViolation"

\* C6: the frame read returns nothing when the tag differs from the fusion
\* output tag, and a quaternion sample when the tag equals it.
C6_ReturnsSampleForFusionTag ==
    (pc[1] = "ready" /\ Len(reads[1]) = Len(quaternion_body)) =>
        (ret[1] = None <=> tag[1] # TAG_SFLP_GAME_ROTATION)

\* C7: frame reads that each find a frame pending consume the frames one per
\* read, in FIFO order: the k-th read obtains the payload of the k-th frame
\* queued, and the device has given up exactly k frames.
C7_FramesConsumedInOrder ==
    (pc[1] = "ready" /\ Len(consumed) = calls[1] /\ 0 \notin Range(consumed)) =>
        /\ \A i \in 1..Len(consumed) : consumed[i] = i
        /\ nProduced - Len(fifo) = calls[1]
C7_Witness ==
    /\ pc[1] = "ready"
    /\ calls[1] = 2
    /\ consumed = <<1, 2>>
    /\ status[1].samples = 1
    /\ nProduced = 2
    /\ fifo = <<>>

\* C8: at most one caller is inside an embedded-bank scope on the device.
C8_OneBankScope == ~(InScope(1) /\ InScope(2))

\* C9: the samples field lies in 0..511 and does not depend on bits 10 and 9
\* of the status word.
C9_SamplesIgnoreReservedBits ==
    calls[1] = 1 =>
        /\ status[1].samples \in 0..511
        /\ \A r \in 0..3 :
             LET w == word - ((word \div 512) % 4) * 512 + r * 512
             IN read_status(<<w % 256, w \div 256>>).samples = status[1].samples
C9_Witness == calls[1] = 1 /\ word = 1543 /\ status[1].samples = 7

\* C10: a frame read makes one read of the tag register and one of the
\* payload, and the tag it obtains is that of the frame whose payload it read.
C10_TagOfSameFrame ==
    (pc[1] = "ready" /\ Len(reads[1]) = Len(quaternion_body) /\ rawSrc[1] # 0) =>
        /\ Count(reads[1], LSM6DSV16X_FIFO_DATA_OUT_TAG) = 1
        /\ Count(reads[1], LSM6DSV16X_FIFO_DATA_OUT_X_L) = 1
        /\ tagSrc[1] = rawSrc[1]

====
